---- MODULE Spec2Model ----
\* golearn user service: the authentication engine (userService), the account
\* repository, the HTTP and gRPC handlers in front of it, and the process
\* shutdown sequence of cmd/user_service/main.go.
EXTENDS Integers, FiniteSets, Sequences, TLC

\* ---------------------------------------------------------------- bounds
\* Last instant of the clock.
MaxTime == 1

\* ---------------------------------------------------------------- data
\* Request goroutines that may be in flight at the same time.
Procs == {"w1", "w2"}

Emails == {"a@x.com", "b@x.com"}
Passwords == {"secret1", "wrong12"}
\* Register requests a client may send: well-formed ones, and one that fails
\* each binding rule (`required,email`, `min=2`, `min=6`).
RegisterInputs ==
  [email : Emails, name : {"Ann"}, pw : {"secret1"}]
    \cup {[email |-> "", name |-> "Ann", pw |-> "secret1"],
          [email |-> "a@x.com", name |-> "A", pw |-> "secret1"],
          [email |-> "a@x.com", name |-> "Ann", pw |-> "abc"]}
\* Login requests: well-formed ones, and one that fails each `required`.
LoginInputs ==
  [email : Emails, pw : Passwords]
    \cup {[email |-> "", pw |-> "secret1"], [email |-> "a@x.com", pw |-> ""]}

\* Lengths of the strings above, as the binding validators read them.
StrLen(s) ==
  CASE s = "" -> 0
    [] s = "A" -> 1
    [] s = "Ann" -> 3
    [] s = "abc" -> 3
    [] OTHER -> 7

\* Identifiers: 0 is the empty string, 1.. are generated UUIDs. A client may
\* ask for any identifier an account can have, and for one that none has.
IdInputs == 0..(Cardinality(Emails) + 1)

\* A Go error is its wrap chain, outermost message first; nil is <<>>.
NoErr == <<>>
ErrIs(err, target) == \E i \in 1..Len(err) : err[i] = target
Wrap(msg, err) == <<msg>> \o err

ErrUserNotFound == "user not found"
ErrDuplicateEmail == "email already exists"
ErrInvalidCredentials == "invalid email or password"
\* gorm's sentinels, as the repository matches them.
GormErrDuplicatedKey == "gorm: duplicated key not allowed"
GormErrRecordNotFound == "gorm: record not found"
\* The database driver's error for a violated unique constraint.
UniqueViolation == "duplicate key value violates unique constraint"
\* Any other error of the storage layer (connection lost, context cancelled).
DbFault == "db: connection unavailable"
HashingFailure == "bcrypt: hashing failed"
IssuanceFailure == "jwt: signing failed"
\* The token codec's three decode failures.
TokenMalformed == "token is malformed"
TokenSignatureInvalid == "token signature is invalid"
TokenExpired == "token is expired"

\* The string field User.Password: empty, a plaintext, or a salted digest.
EmptyPassword == [kind |-> "empty", salt |-> 0, pw |-> ""]
PlainPassword(p) == [kind |-> "plain", salt |-> 0, pw |-> p]

\* util.HashPassword: a self-describing salted digest of the plaintext.
HashPassword(p, salt) == [kind |-> "bcrypt", salt |-> salt, pw |-> p]
\* util.CheckPassword: true only for a digest of this plaintext.
CheckPassword(p, h) == h.kind = "bcrypt" /\ h.pw = p

\* domain.User (timestamps left out: no operation reads them).
NoUser == [id |-> 0, email |-> "", name |-> "", password |-> EmptyPassword]
NewUser(email, name, password) ==
  [id |-> 0, email |-> email, name |-> name, password |-> password]

\* The signing secret the process was configured with, and a foreign one.
JwtSecret == "cfg.JWTSecret"
OtherSecret == "other-secret"
Secrets == {JwtSecret, OtherSecret}
\* Lifetime of a token, in clock instants.
TokenTTL == 1

\* A bearer token: wf is structural well-formedness, key the secret that signed it.
NoToken == [wf |-> FALSE, sub |-> 0, email |-> "", iat |-> 0, key |-> ""]
\* util.GenerateJWT
GenerateJWT(id, email, secret, t) ==
  [wf |-> TRUE, sub |-> id, email |-> email, iat |-> t, key |-> secret]
TokenExp(tok) == tok.iat + TokenTTL
\* util.ValidateJWT: well-formedness, then signature, then expiry.
ValidateJWT(tok, secret, t) ==
  IF ~tok.wf THEN [claims |-> NoToken, err |-> <<TokenMalformed>>]
  ELSE IF tok.key # secret THEN [claims |-> NoToken, err |-> <<TokenSignatureInvalid>>]
  ELSE IF t >= TokenExp(tok) THEN [claims |-> NoToken, err |-> <<TokenExpired>>]
  ELSE [claims |-> tok, err |-> NoErr]

\* ---------------------------------------------------------------- storage
\* Mutant: the hook generates no identifier.
BeforeCreate_Never(u, fresh) == u

\* User.BeforeCreate: generate an identifier only when none is set.
BeforeCreate(u, fresh) == IF u.id = 0 THEN [u EXCEPT !.id = fresh] ELSE u

\* Mutant: the email column has no unique index, only the primary key holds.
DbInsert_NoUniqueIndex(rows, u) ==
  IF \E r \in rows : r.id = u.id
  THEN [rows |-> rows, err |-> <<UniqueViolation>>]
  ELSE [rows |-> rows \cup {u}, err |-> NoErr]

\* The users table as the struct tags declare it: INSERT under the primary
\* key on id and the unique index on email. Returns the rows and the driver's error.
DbInsert(rows, u) ==
  IF \E r \in rows : r.email = u.email \/ r.id = u.id
  THEN [rows |-> rows, err |-> <<UniqueViolation>>]
  ELSE [rows |-> rows \cup {u}, err |-> NoErr]

\* The gorm session the process opens reports a uniqueness violation as
\* gorm.ErrDuplicatedKey (the directory contract: Create fails with DuplicateKey).
GormTranslate(err) ==
  IF ErrIs(err, UniqueViolation) THEN <<GormErrDuplicatedKey>> ELSE err

\* Mutant: the repository saves (upserts) instead of creating.
DbCreate_Save(rows, u) ==
  [rows |-> {r \in rows : r.email # u.email /\ r.id # u.id} \cup {u}, err |-> NoErr]

\* r.db.WithContext(ctx).Create(user): the new rows and result.Error.
DbCreate(rows, u) ==
  LET r == DbInsert(rows, u)
  IN [rows |-> r.rows, err |-> GormTranslate(r.err)]

\* SELECT ... WHERE email = ? LIMIT 1 (a copy of the row, or record not found).
DbFirstByEmail(rows, email) ==
  IF \E r \in rows : r.email = email
  THEN [user |-> CHOOSE r \in rows : r.email = email, err |-> NoErr]
  ELSE [user |-> NoUser, err |-> <<GormErrRecordNotFound>>]

\* SELECT ... WHERE id = ? LIMIT 1.
DbFirstByID(rows, id) ==
  IF \E r \in rows : r.id = id
  THEN [user |-> CHOOSE r \in rows : r.id = id, err |-> NoErr]
  ELSE [user |-> NoUser, err |-> <<GormErrRecordNotFound>>]

\* userRepository.Create: the error it returns for gorm's result.Error.
RepoCreateErr(dbErr) ==
  IF dbErr # NoErr
  THEN IF ErrIs(dbErr, GormErrDuplicatedKey) THEN <<ErrDuplicateEmail>> ELSE dbErr
  ELSE NoErr

\* userRepository.GetByID / GetByEmail: (user, error) for gorm's result.
RepoGetResult(found) ==
  IF found.err # NoErr
  THEN IF ErrIs(found.err, GormErrRecordNotFound)
       THEN [user |-> NoUser, err |-> <<ErrUserNotFound>>]
       ELSE [user |-> NoUser, err |-> found.err]
  ELSE [user |-> found.user, err |-> NoErr]

\* ---------------------------------------------------------------- engine
\* Mutant: the password is left on the value returned.
ClearPassword_Keeps(u) == u

\* user.Password = "" on the value about to be returned.
ClearPassword(u) == [u EXCEPT !.password = EmptyPassword]

\* userService.Register, hashing failure.
RegisterHashErr(err) == Wrap("failed to hash password", err)

\* userService.Register: the account built from the request and the hash.
RegisterUser(email, name, hashed) == NewUser(email, name, hashed)

\* Mutant: every create error is wrapped, the duplicate included.
RegisterResult_WrapsAll(u, createErr) ==
  IF createErr # NoErr
  THEN [user |-> NoUser, err |-> Wrap("failed to create user", createErr)]
  ELSE [user |-> [u EXCEPT !.password = EmptyPassword], err |-> NoErr]

\* userService.Register after repo.Create returned createErr for user u.
RegisterResult(u, createErr) ==
  IF createErr # NoErr
  THEN IF ErrIs(createErr, ErrDuplicateEmail)
       THEN [user |-> NoUser, err |-> createErr]
       ELSE [user |-> NoUser, err |-> Wrap("failed to create user", createErr)]
  ELSE [user |-> ClearPassword(u), err |-> NoErr]

\* Mutant: a missing account is not told apart from other lookup errors.
LoginLookupErr_Leak(err) == Wrap("failed to get user", err)

\* userService.Login when repo.GetByEmail failed with err.
LoginLookupErr(err) ==
  IF ErrIs(err, ErrUserNotFound)
  THEN <<ErrInvalidCredentials>>
  ELSE Wrap("failed to get user", err)

\* Mutant: the token is issued without the account's identifier.
LoginToken_NoSubject(u, t) == GenerateJWT(0, u.email, JwtSecret, t)

\* userService.Login: the token it asks the codec for.
LoginToken(u, t) == GenerateJWT(u.id, u.email, JwtSecret, t)

\* userService.Login once the account u was found; jwtErr is GenerateJWT's error.
LoginResult(u, pw, t, jwtErr) ==
  IF ~CheckPassword(pw, u.password)
  THEN [token |-> NoToken, user |-> NoUser, err |-> <<ErrInvalidCredentials>>]
  ELSE IF jwtErr # NoErr
  THEN [token |-> NoToken, user |-> NoUser,
        err |-> Wrap("failed to generate token", jwtErr)]
  ELSE [token |-> LoginToken(u, t), user |-> ClearPassword(u), err |-> NoErr]

\* userService.GetUserByID for the repository's (user, error).
GetUserByIDResult(got) ==
  IF got.err # NoErr
  THEN [user |-> NoUser, err |-> got.err]
  ELSE [user |-> ClearPassword(got.user), err |-> NoErr]

\* Mutant: the engine validates under a secret other than the configured one.
ValidateToken_OtherSecret(tok, t) ==
  LET r == ValidateJWT(tok, OtherSecret, t)
  IN IF r.err # NoErr
     THEN [sub |-> 0, err |-> r.err]
     ELSE [sub |-> r.claims.sub, err |-> NoErr]

\* userService.ValidateToken at instant t: (userID, error).
ValidateToken(tok, t) ==
  LET r == ValidateJWT(tok, JwtSecret, t)
  IN IF r.err # NoErr
     THEN [sub |-> 0, err |-> r.err]
     ELSE [sub |-> r.claims.sub, err |-> NoErr]

\* ---------------------------------------------------------------- facade
\* What a caller gets back. status is the HTTP status or the gRPC code;
\* err, user, token are what the engine returned (engine says whether it ran).
NoResp ==
  [status |-> "", message |-> "", user |-> NoUser, token |-> NoToken,
   valid |-> FALSE, subject |-> 0, err |-> NoErr, engine |-> FALSE]

\* c.ShouldBindJSON(&RegisterRequest): required,email / min=2,max=100 / min=6.
BindRegister(email, name, pw) ==
  /\ email # ""
  /\ StrLen(name) >= 2 /\ StrLen(name) <= 100
  /\ StrLen(pw) >= 6

\* c.ShouldBindJSON(&LoginRequest): required,email / required.
BindLogin(email, pw) == email # "" /\ pw # ""

BadRequest == [NoResp EXCEPT !.status = "400", !.message = "binding failed"]

\* HTTPHandler.Register for the engine's (user, err).
HTTPRegisterResp(res) ==
  IF res.err # NoErr
  THEN IF ErrIs(res.err, ErrDuplicateEmail)
       THEN [NoResp EXCEPT !.status = "409", !.message = "Email already exists",
                           !.err = res.err, !.engine = TRUE]
       ELSE [NoResp EXCEPT !.status = "500", !.message = "Failed to register user",
                           !.err = res.err, !.engine = TRUE]
  ELSE [NoResp EXCEPT !.status = "201", !.user = res.user, !.engine = TRUE]

\* Mutant: every login error is answered 500.
HTTPLoginResp_All500(res) ==
  IF res.err # NoErr
  THEN [NoResp EXCEPT !.status = "500", !.message = "Failed to login",
                      !.err = res.err, !.engine = TRUE]
  ELSE [NoResp EXCEPT !.status = "200", !.user = res.user, !.token = res.token,
                      !.engine = TRUE]

\* HTTPHandler.Login for the engine's (response, err).
HTTPLoginResp(res) ==
  IF res.err # NoErr
  THEN IF ErrIs(res.err, ErrInvalidCredentials)
       THEN [NoResp EXCEPT !.status = "401", !.message = "Invalid email or password",
                           !.err = res.err, !.engine = TRUE]
       ELSE [NoResp EXCEPT !.status = "500", !.message = "Failed to login",
                           !.err = res.err, !.engine = TRUE]
  ELSE [NoResp EXCEPT !.status = "200", !.user = res.user, !.token = res.token,
                      !.engine = TRUE]

\* HTTPHandler.GetUser for the engine's (user, err).
HTTPGetUserResp(res) ==
  IF res.err # NoErr
  THEN IF ErrIs(res.err, ErrUserNotFound)
       THEN [NoResp EXCEPT !.status = "404", !.message = "User not found",
                           !.err = res.err, !.engine = TRUE]
       ELSE [NoResp EXCEPT !.status = "500", !.message = "Failed to get user",
                           !.err = res.err, !.engine = TRUE]
  ELSE [NoResp EXCEPT !.status = "200", !.user = res.user, !.engine = TRUE]

\* GRPCHandler.GetUser, the user_id check.
GRPCGetUserInvalid ==
  [NoResp EXCEPT !.status = "InvalidArgument", !.message = "user_id is required"]

\* GRPCHandler.GetUser for the engine's (user, err); the reply carries
\* id, email, name and the creation time only.
GRPCGetUserResp(res) ==
  IF res.err # NoErr
  THEN IF ErrIs(res.err, ErrUserNotFound)
       THEN [NoResp EXCEPT !.status = "NotFound", !.message = "user not found",
                           !.err = res.err, !.engine = TRUE]
       ELSE [NoResp EXCEPT !.status = "Internal", !.message = "failed to get user",
                           !.err = res.err, !.engine = TRUE]
  ELSE [NoResp EXCEPT !.status = "OK", !.user = res.user, !.engine = TRUE]

\* err.Error(): the message of the outermost error (no wrapping on this path).
ErrorText(err) == err[1]

\* GRPCHandler.ValidateToken at instant t.
GRPCValidateTokenResp(tok, t) ==
  IF tok = NoToken
  THEN [NoResp EXCEPT !.status = "OK", !.message = "token is required"]
  ELSE LET res == ValidateToken(tok, t)
       IN IF res.err # NoErr
          THEN [NoResp EXCEPT !.status = "OK", !.message = ErrorText(res.err),
                              !.err = res.err, !.engine = TRUE]
          ELSE [NoResp EXCEPT !.status = "OK", !.valid = TRUE, !.subject = res.sub,
                              !.message = "token is valid", !.engine = TRUE]

\* ---------------------------------------------------------------- state
VARIABLES
  db,       \* rows of the users table
  now,      \* the clock
  calls,    \* per request goroutine: the call it serves
  main      \* where main() is: serving, http_wait, grpc_wait, exited

vars == <<db, now, calls, main>>

\* A request goroutine with no call.
IdleCall ==
  [pc |-> "idle", transport |-> "", op |-> "", email |-> "", name |-> "",
   pw |-> "", id |-> 0, token |-> NoToken, user |-> NoUser, err |-> NoErr,
   faulted |-> FALSE, at |-> 0, resp |-> NoResp]

\* p can take a new request.
Free(p) == calls[p].pc \in {"idle", "done"}
InFlight(p) == calls[p].pc \notin {"idle", "done", "killed"}

\* httpServer is accepting until Shutdown is called; grpcServer until GracefulStop.
HTTPAccepting == main = "serving"
GRPCAccepting == main \in {"serving", "http_wait"}
Running == main # "exited"

\* Tokens a client may present: the ones logins handed out, or crafted ones.
ForgedTokens ==
  [wf : BOOLEAN, sub : {1}, email : {"a@x.com"}, iat : {0, MaxTime}, key : {OtherSecret}]
HeldTokens ==
  {calls[p].resp.token : p \in {q \in Procs : calls[q].resp.token # NoToken}}
TokenInputs == ForgedTokens \cup HeldTokens \cup {NoToken}

\* uuid.New(): an identifier no account has. Identifiers that were generated
\* for a failed create are never shown to anyone, so the least unused one stands
\* for any fresh identifier.
FreshID ==
  CHOOSE n \in 1..(Cardinality(db) + 1) :
    /\ \A r \in db : r.id # n
    /\ \A m \in 1..(n - 1) : \E r \in db : r.id = m

\* The salt bcrypt draws: one that no stored hash and no hash still held by a
\* Register in flight carries (the least such stands for any fresh salt).
SaltsInUse ==
  {r.password.salt : r \in db}
    \cup {calls[q].user.password.salt : q \in {x \in Procs : calls[x].pc = "reg_create"}}
FreshSalt ==
  CHOOSE n \in 1..(Cardinality(SaltsInUse) + 1) :
    /\ n \notin SaltsInUse
    /\ \A m \in 1..(n - 1) : m \in SaltsInUse

Finish(p, c, resp) ==
  calls' = [calls EXCEPT ![p] = [c EXCEPT !.pc = "done", !.user = NoUser,
                                          !.err = NoErr, !.resp = resp]]

Init ==
  /\ db = {}
  /\ now = 0
  /\ calls = [p \in Procs |-> IdleCall]
  /\ main = "serving"

\* ---------------------------------------------------------------- time
Tick ==
  /\ Running
  /\ now < MaxTime
  /\ now' = now + 1
  /\ UNCHANGED <<db, calls, main>>

\* ---------------------------------------------------------------- POST /api/v1/register
\* HTTPHandler.Register up to the engine call.
HTTPRegisterBegin(p, email, name, pw) ==
  /\ HTTPAccepting /\ Free(p)
  /\ LET c == [IdleCall EXCEPT !.transport = "http", !.op = "Register"]
     IN IF BindRegister(email, name, pw)
        THEN calls' = [calls EXCEPT ![p] =
               [c EXCEPT !.pc = "reg_hash", !.email = email, !.name = name, !.pw = pw]]
        ELSE Finish(p, c, BadRequest)
  /\ UNCHANGED <<db, now, main>>

\* userService.Register: util.HashPassword, which draws a fresh salt or fails.
RegisterHash(p, fail) ==
  /\ Running /\ calls[p].pc = "reg_hash"
  /\ LET c == calls[p]
     IN IF fail
        THEN Finish(p, [c EXCEPT !.faulted = TRUE],
                    HTTPRegisterResp([user |-> NoUser,
                                      err |-> RegisterHashErr(<<HashingFailure>>)]))
        ELSE calls' = [calls EXCEPT ![p] =
               [c EXCEPT !.pc = "reg_create",
                         !.user = RegisterUser(c.email, c.name,
                                               HashPassword(c.pw, FreshSalt))]]
  /\ UNCHANGED <<db, now, main>>

\* userRepository.Create: the BeforeCreate hook, then the INSERT, in one
\* statement of the database; or the storage layer fails.
RegisterCreate(p, fail) ==
  /\ Running /\ calls[p].pc = "reg_create"
  /\ LET c == calls[p]
         u == BeforeCreate(c.user, FreshID)
         r == IF fail THEN [rows |-> db, err |-> <<DbFault>>] ELSE DbCreate(db, u)
     IN /\ db' = r.rows
        /\ calls' = [calls EXCEPT ![p] =
             [c EXCEPT !.pc = "reg_return",
                       !.user = IF r.err = NoErr THEN u ELSE NoUser,
                       !.err = RepoCreateErr(r.err),
                       !.faulted = fail]]
  /\ UNCHANGED <<now, main>>

\* userService.Register from the error check on, and HTTPHandler.Register's reply.
RegisterReturn(p) ==
  /\ Running /\ calls[p].pc = "reg_return"
  /\ LET c == calls[p]
         res == RegisterResult(c.user, c.err)
     IN Finish(p, c, HTTPRegisterResp(res))
  /\ UNCHANGED <<db, now, main>>

\* ---------------------------------------------------------------- POST /api/v1/login
\* HTTPHandler.Login up to the engine call.
HTTPLoginBegin(p, email, pw) ==
  /\ HTTPAccepting /\ Free(p)
  /\ LET c == [IdleCall EXCEPT !.transport = "http", !.op = "Login"]
     IN IF BindLogin(email, pw)
        THEN calls' = [calls EXCEPT ![p] =
               [c EXCEPT !.pc = "login_lookup", !.email = email, !.pw = pw]]
        ELSE Finish(p, c, BadRequest)
  /\ UNCHANGED <<db, now, main>>

\* userService.Login: repo.GetByEmail and the error branch after it.
LoginLookup(p, fail) ==
  /\ Running /\ calls[p].pc = "login_lookup"
  /\ LET c == calls[p]
         got == RepoGetResult(IF fail THEN [user |-> NoUser, err |-> <<DbFault>>]
                              ELSE DbFirstByEmail(db, c.email))
     IN IF got.err # NoErr
        THEN Finish(p, [c EXCEPT !.faulted = fail],
                    HTTPLoginResp([token |-> NoToken, user |-> NoUser,
                                   err |-> LoginLookupErr(got.err)]))
        ELSE calls' = [calls EXCEPT ![p] =
               [c EXCEPT !.pc = "login_verify", !.user = got.user]]
  /\ UNCHANGED <<db, now, main>>

\* userService.Login: CheckPassword, GenerateJWT (which may fail), the
\* password cleared on the local copy, and HTTPHandler.Login's reply.
LoginFinish(p, fail) ==
  /\ Running /\ calls[p].pc = "login_verify"
  /\ LET c == calls[p]
         jwtErr == IF fail THEN <<IssuanceFailure>> ELSE NoErr
         res == LoginResult(c.user, c.pw, now, jwtErr)
     IN Finish(p, [c EXCEPT !.faulted = fail /\ CheckPassword(c.pw, c.user.password)],
               HTTPLoginResp(res))
  /\ UNCHANGED <<db, now, main>>

\* ---------------------------------------------------------------- GET /api/v1/users/:id, GetUser RPC
\* HTTPHandler.GetUser up to the engine call (the route needs a non-empty id).
HTTPGetUserBegin(p, id) ==
  /\ HTTPAccepting /\ Free(p)
  /\ id # 0
  /\ calls' = [calls EXCEPT ![p] =
       [IdleCall EXCEPT !.transport = "http", !.op = "GetUser", !.id = id,
                        !.pc = "get_lookup"]]
  /\ UNCHANGED <<db, now, main>>

\* GRPCHandler.GetUser up to the engine call.
GRPCGetUserBegin(p, id) ==
  /\ GRPCAccepting /\ Free(p)
  /\ LET c == [IdleCall EXCEPT !.transport = "grpc", !.op = "GetUser", !.id = id]
     IN IF id = 0
        THEN Finish(p, c, GRPCGetUserInvalid)
        ELSE calls' = [calls EXCEPT ![p] = [c EXCEPT !.pc = "get_lookup"]]
  /\ UNCHANGED <<db, now, main>>

\* userService.GetUserByID: repo.GetByID, the password cleared on the copy,
\* and the handler's reply on the call's transport.
GetUserLookup(p, fail) ==
  /\ Running /\ calls[p].pc = "get_lookup"
  /\ LET c == calls[p]
         got == RepoGetResult(IF fail THEN [user |-> NoUser, err |-> <<DbFault>>]
                              ELSE DbFirstByID(db, c.id))
         res == GetUserByIDResult(got)
     IN Finish(p, [c EXCEPT !.faulted = fail],
               IF c.transport = "http" THEN HTTPGetUserResp(res)
               ELSE GRPCGetUserResp(res))
  /\ UNCHANGED <<db, now, main>>

\* ---------------------------------------------------------------- ValidateToken RPC
\* GRPCHandler.ValidateToken and userService.ValidateToken: no shared state
\* is read but the clock, so the call is one step.
GRPCValidateToken(p, tok) ==
  /\ GRPCAccepting /\ Free(p)
  /\ Finish(p, [IdleCall EXCEPT !.transport = "grpc", !.op = "ValidateToken",
                                !.token = tok, !.at = now],
            GRPCValidateTokenResp(tok, now))
  /\ UNCHANGED <<db, now, main>>

\* ---------------------------------------------------------------- shutdown
\* <-quit, then httpServer.Shutdown(shutdownCtx) closes the HTTP listener.
Signal ==
  /\ main = "serving"
  /\ main' = "http_wait"
  /\ UNCHANGED <<db, now, calls>>

HTTPInFlight == \E p \in Procs : InFlight(p) /\ calls[p].transport = "http"
GRPCInFlight == \E p \in Procs : InFlight(p) /\ calls[p].transport = "grpc"

\* httpServer.Shutdown returns nil once no HTTP call is in flight; main then
\* calls grpcServer.GracefulStop, which closes the gRPC listener.
HTTPShutdownClean ==
  /\ main = "http_wait"
  /\ ~HTTPInFlight
  /\ main' = "grpc_wait"
  /\ UNCHANGED <<db, now, calls>>

\* shutdownCtx expires after 5 seconds: Shutdown returns the context's error
\* and leaves the calls in flight running; main goes on to GracefulStop.
HTTPShutdownTimeout ==
  /\ main = "http_wait"
  /\ HTTPInFlight
  /\ main' = "grpc_wait"
  /\ UNCHANGED <<db, now, calls>>

\* grpcServer.GracefulStop returns once every RPC in flight has finished;
\* main returns and the process ends, taking every goroutine with it.
GracefulStopReturn ==
  /\ main = "grpc_wait"
  /\ ~GRPCInFlight
  /\ main' = "exited"
  /\ calls' = [p \in Procs |->
       IF InFlight(p) THEN [calls[p] EXCEPT !.pc = "killed", !.user = NoUser,
                                             !.err = NoErr]
       ELSE calls[p]]
  /\ UNCHANGED <<db, now>>

\* The steps of main()'s own goroutine after the signal.
MainStep == HTTPShutdownClean \/ HTTPShutdownTimeout \/ GracefulStopReturn

\* ---------------------------------------------------------------- specification
\* The requests the two listeners serve.
Serve ==
  \/ Tick
  \/ \E p \in Procs, r \in RegisterInputs : HTTPRegisterBegin(p, r.email, r.name, r.pw)
  \/ \E p \in Procs, f \in BOOLEAN : RegisterHash(p, f)
  \/ \E p \in Procs, f \in BOOLEAN : RegisterCreate(p, f)
  \/ \E p \in Procs : RegisterReturn(p)
  \/ \E p \in Procs, r \in LoginInputs : HTTPLoginBegin(p, r.email, r.pw)
  \/ \E p \in Procs, f \in BOOLEAN : LoginLookup(p, f)
  \/ \E p \in Procs, f \in BOOLEAN : LoginFinish(p, f)
  \/ \E p \in Procs, i \in IdInputs : HTTPGetUserBegin(p, i)
  \/ \E p \in Procs, i \in IdInputs : GRPCGetUserBegin(p, i)
  \/ \E p \in Procs, f \in BOOLEAN : GetUserLookup(p, f)
  \/ \E p \in Procs, t \in TokenInputs : GRPCValidateToken(p, t)

Next == Serve

\* The service while no signal arrives.
Spec == Init /\ [][Next]_vars

\* The process from start to exit: lookups arriving on both transports while
\* main() waits for the signal and then stops the two servers.
ShutdownNext ==
  \/ \E p \in Procs, i \in IdInputs : HTTPGetUserBegin(p, i)
  \/ \E p \in Procs, i \in IdInputs : GRPCGetUserBegin(p, i)
  \/ \E p \in Procs, f \in BOOLEAN : GetUserLookup(p, f)
  \/ Signal
  \/ HTTPShutdownClean
  \/ HTTPShutdownTimeout
  \/ GracefulStopReturn

ShutdownSpec == Init /\ [][ShutdownNext]_vars

\* ================================================================ properties
Done(p) == calls[p].pc = "done"
\* p's call has completed and was op on transport tr.
DoneOp(p, tr, op) == Done(p) /\ calls[p].transport = tr /\ calls[p].op = op
\* The engine ran for p's call and no infrastructure fault hit it.
Answered(p) == calls[p].resp.engine /\ ~calls[p].faulted
HasAccount(email) == \E r \in db : r.email = email

\* The one reply a rejected login gets.
InvalidCredentialsResp ==
  [NoResp EXCEPT !.status = "401", !.message = "Invalid email or password",
                 !.err = <<ErrInvalidCredentials>>, !.engine = TRUE]

\* p's completed login was for an email no account has.
UnknownEmailLogin(p) ==
  DoneOp(p, "http", "Login") /\ Answered(p) /\ ~HasAccount(calls[p].email)
\* p's completed login was for an existing account with a password that does not verify.
WrongPasswordLogin(p) ==
  /\ DoneOp(p, "http", "Login") /\ Answered(p)
  /\ \E r \in db : r.email = calls[p].email /\ ~CheckPassword(calls[p].pw, r.password)

\* C1: a login for an email without an account and a login for an existing
\* email with a password that does not verify (no storage fault in either) get
\* the same reply: the InvalidCredentials error, never ErrUserNotFound, no
\* token, no account, HTTP 401 with the same body; so any two such replies
\* are equal.
C1_LoginIndistinguishable ==
  /\ \A p \in Procs :
       (UnknownEmailLogin(p) \/ WrongPasswordLogin(p))
         => calls[p].resp = InvalidCredentialsResp
  /\ \A p, q \in Procs :
       (UnknownEmailLogin(p) /\ WrongPasswordLogin(q))
         => calls[p].resp = calls[q].resp
  /\ \A p \in Procs :
       DoneOp(p, "http", "Login") => ~ErrIs(calls[p].resp.err, ErrUserNotFound)

\* Both cases of C1 have happened: one goroutine was refused for an unknown
\* email, the other for a wrong password.
C1_Witness ==
  \E p, q \in Procs :
    /\ UnknownEmailLogin(p) /\ WrongPasswordLogin(q)
    /\ calls[p].resp.status = "401" /\ calls[q].resp.status = "401"

\* C2: at most one account per email is ever stored; of the Register calls for
\* one email that no fault hit, none but one succeeds and every other one
\* fails with exactly ErrDuplicateEmail (HTTP 409), and then the account of
\* the one that succeeded is in the directory; a successful Register's account
\* stays the stored one.
C2_OneRegisterWins ==
  /\ \A r1, r2 \in db : r1.email = r2.email => r1 = r2
  /\ \A p \in Procs :
       (DoneOp(p, "http", "Register") /\ Answered(p)) =>
          \/ /\ calls[p].resp.status = "201"
             /\ \E r \in db : r.email = calls[p].email /\ r.id = calls[p].resp.user.id
          \/ /\ calls[p].resp.status = "409"
             /\ calls[p].resp.err = <<ErrDuplicateEmail>>
             /\ HasAccount(calls[p].email)
  /\ \A p, q \in Procs :
       (p # q /\ calls[p].email = calls[q].email
        /\ calls[p].pc = "reg_return" /\ calls[q].pc = "reg_return"
        /\ ~calls[p].faulted /\ ~calls[q].faulted) =>
          \/ calls[p].err = NoErr /\ calls[q].err = <<ErrDuplicateEmail>>
          \/ calls[q].err = NoErr /\ calls[p].err = <<ErrDuplicateEmail>>
          \/ calls[p].err = <<ErrDuplicateEmail>> /\ calls[q].err = <<ErrDuplicateEmail>>
  /\ \A p, q \in Procs :
       (p # q /\ DoneOp(p, "http", "Register") /\ DoneOp(q, "http", "Register")
        /\ calls[p].email = calls[q].email)
         => ~(calls[p].resp.status = "201" /\ calls[q].resp.status = "201")

\* Two Register calls for one email were past create at the same time: one
\* created the account, the other saw the duplicate.
C2_Witness ==
  \E p, q \in Procs :
    /\ p # q /\ calls[p].email = calls[q].email
    /\ calls[p].pc = "reg_return" /\ calls[p].err = NoErr
    /\ calls[q].pc = "reg_return" /\ calls[q].err = <<ErrDuplicateEmail>>

\* p's Register takes its create step in this transition.
CreateStep(p) == calls[p].pc = "reg_create" /\ calls'[p].pc = "reg_return"

C3_State ==
  \A p \in Procs :
    DoneOp(p, "http", "Register") /\ calls[p].resp.engine =>
      /\ calls[p].resp.status = "409" =>
           /\ calls[p].resp.err = <<ErrDuplicateEmail>>
           /\ calls[p].resp.user = NoUser
           /\ HasAccount(calls[p].email)
      /\ ErrIs(calls[p].resp.err, DbFault) =>
           /\ calls[p].resp.err = <<"failed to create user", DbFault>>
           /\ ~ErrIs(calls[p].resp.err, ErrDuplicateEmail)
           /\ calls[p].resp.user = NoUser
           /\ calls[p].resp.status = "500"
C3_Step ==
  \A p \in Procs :
    (CreateStep(p) /\ HasAccount(calls[p].email)) =>
      /\ db' = db
      /\ ~calls'[p].faulted => calls'[p].err = <<ErrDuplicateEmail>>
      /\ calls'[p].user = NoUser

\* C3: a create for an email that is already stored leaves the table as it
\* was and, unless the storage layer failed, yields ErrDuplicateEmail; Register
\* then returns that very error (not wrapped) and no account. Any other create
\* error comes back wrapped as "failed to create user", is not ErrDuplicateEmail,
\* and is answered 500.
C3_DuplicateEmail == []C3_State /\ [][C3_Step]_vars

\* A Register for a stored email has returned ErrDuplicateEmail, and another
\* Register has returned a storage failure.
C3_Witness ==
  \E p, q \in Procs :
    /\ DoneOp(p, "http", "Register") /\ calls[p].resp.err = <<ErrDuplicateEmail>>
    /\ DoneOp(q, "http", "Register") /\ ErrIs(calls[q].resp.err, DbFault)

\* C4: every account handed back by Register, Login or GetUserByID has an
\* empty password, and what the table stores as a password is a hash, never
\* a plaintext.
C4_NoHashReturned ==
  /\ \A p \in Procs : calls[p].resp.user.password = EmptyPassword
  /\ \A r \in db : r.password.kind = "bcrypt"
  /\ \A r \in db : \A w \in Passwords : r.password # PlainPassword(w)

\* Register and Login have each returned an account whose stored hash is in the table.
C4_Witness ==
  \E p, q \in Procs :
    /\ DoneOp(p, "http", "Register") /\ calls[p].resp.status = "201"
    /\ DoneOp(q, "http", "Login") /\ calls[q].resp.status = "200"
    /\ \E r \in db : r.id = calls[q].resp.user.id /\ r.password.kind = "bcrypt"

\* A token for the account id: from its issue until its expiry the engine's
\* ValidateToken returns id, and under another secret the codec rejects it.
TokenGood(tok, id) ==
  /\ tok.wf /\ tok.sub = id /\ tok.key = JwtSecret
  /\ \A t \in tok.iat..(TokenExp(tok) - 1) : ValidateToken(tok, t) = [sub |-> id, err |-> NoErr]
  /\ ValidateJWT(tok, OtherSecret, tok.iat).err = <<TokenSignatureInvalid>>

C5_State ==
  \A p \in Procs :
    /\ (DoneOp(p, "http", "Register") /\ calls[p].resp.status = "201") =>
         \E r \in db :
           /\ r.email = calls[p].email /\ r.id = calls[p].resp.user.id /\ r.id # 0
           /\ CheckPassword(calls[p].pw, r.password)
           /\ \A w \in Passwords \ {calls[p].pw} : ~CheckPassword(w, r.password)
    /\ calls[p].pc = "login_verify" =>
         calls[p].user \in db /\ calls[p].user.email = calls[p].email
    /\ (DoneOp(p, "http", "Login") /\ calls[p].resp.status = "200") =>
         \E r \in db :
           /\ r.email = calls[p].email /\ r.id = calls[p].resp.user.id
           /\ CheckPassword(calls[p].pw, r.password)
           /\ TokenGood(calls[p].resp.token, r.id)
    /\ (Done(p) /\ calls[p].op = "GetUser" /\ calls[p].resp.err = NoErr
        /\ calls[p].resp.engine) =>
         /\ calls[p].resp.user.id = calls[p].id
         /\ \E r \in db : r.id = calls[p].id /\ r.email = calls[p].resp.user.email
    /\ (DoneOp(p, "grpc", "ValidateToken") /\ calls[p].token \in HeldTokens
        /\ calls[p].at < TokenExp(calls[p].token)) =>
         /\ calls[p].resp.valid
         /\ calls[p].resp.subject = calls[p].token.sub

LoginLookupStep(p) == calls[p].pc = "login_lookup" /\ calls'[p].pc # "login_lookup"
LoginFinishStep(p) == calls[p].pc = "login_verify" /\ calls'[p].pc = "done"

C5_Step ==
  \A p \in Procs :
    /\ (LoginLookupStep(p) /\ HasAccount(calls[p].email) /\ ~calls'[p].faulted) =>
         /\ calls'[p].pc = "login_verify"
         /\ calls'[p].user \in db
    /\ (LoginFinishStep(p) /\ ~calls'[p].faulted) =>
         IF CheckPassword(calls[p].pw, calls[p].user.password)
         THEN /\ calls'[p].resp.status = "200"
              /\ calls'[p].resp.err = NoErr
              /\ calls'[p].resp.user.id = calls[p].user.id
              /\ calls'[p].resp.token.iat = now
              /\ TokenGood(calls'[p].resp.token, calls[p].user.id)
         ELSE calls'[p].resp = InvalidCredentialsResp

\* C5: the account a successful Register returned is stored under its email
\* with that identifier and verifies its password and no other; from then on a
\* Login with that email and password that no fault hits finds the account,
\* succeeds and returns a token which, until its expiry, ValidateToken maps to
\* that identifier, the one Login and GetUserByID report as well; a Login with
\* another password gets InvalidCredentials.
C5_RoundTrip == []C5_State /\ [][C5_Step]_vars

\* A login succeeded and the token it returned was then validated to the
\* identifier of the registered account.
C5_Witness ==
  \E p, q \in Procs :
    /\ DoneOp(p, "http", "Login") /\ calls[p].resp.status = "200"
    /\ DoneOp(q, "grpc", "ValidateToken") /\ calls[q].token = calls[p].resp.token
    /\ calls[q].resp.valid /\ calls[q].resp.subject = calls[p].resp.user.id
    /\ \E r \in db : r.id = calls[q].resp.subject /\ r.email = calls[p].email

\* p's completed token check was rejected by the engine.
RejectedToken(p) ==
  DoneOp(p, "grpc", "ValidateToken") /\ calls[p].resp.engine /\ ~calls[p].resp.valid

\* C6: any two tokens the engine rejects get the same error and the same
\* message in the RPC reply, whichever decode check failed.
C6_RejectionsCollapse ==
  \A p, q \in Procs :
    (RejectedToken(p) /\ RejectedToken(q)) =>
      /\ calls[p].resp.err = calls[q].resp.err
      /\ calls[p].resp.message = calls[q].resp.message

\* C7: ValidateToken returns a subject only for a well-formed token signed
\* with the secret the engine was built with and not yet expired, and then
\* the token's subject; a malformed token is rejected as malformed, a
\* well-formed one under another secret as SignatureInvalid (expired or not),
\* and one under the engine's secret past its expiry as Expired.
C7_TokenChecks ==
  \A p \in Procs :
    (DoneOp(p, "grpc", "ValidateToken") /\ calls[p].resp.engine) =>
      LET tok == calls[p].token
          t == calls[p].at
          r == calls[p].resp
      IN /\ r.valid => /\ tok.wf /\ tok.key = JwtSecret /\ t < TokenExp(tok)
                       /\ r.subject = tok.sub /\ r.err = NoErr
         /\ ~tok.wf => ~r.valid /\ r.err = <<TokenMalformed>>
         /\ (tok.wf /\ tok.key # JwtSecret) =>
              ~r.valid /\ r.err = <<TokenSignatureInvalid>>
         /\ (tok.wf /\ tok.key = JwtSecret /\ t >= TokenExp(tok)) =>
              ~r.valid /\ r.err = <<TokenExpired>>
         /\ (tok.wf /\ tok.key = JwtSecret /\ t < TokenExp(tok)) => r.valid

\* A token under a foreign secret that had also expired was rejected for its
\* signature, and a token a login issued was rejected as expired.
C7_Witness ==
  \E p, q \in Procs :
    /\ DoneOp(p, "grpc", "ValidateToken") /\ calls[p].token.wf
    /\ calls[p].token.key = OtherSecret /\ calls[p].at >= TokenExp(calls[p].token)
    /\ calls[p].resp.err = <<TokenSignatureInvalid>>
    /\ DoneOp(q, "grpc", "ValidateToken") /\ calls[q].token.key = JwtSecret
    /\ calls[q].resp.err = <<TokenExpired>>

\* C8: once the signal has arrived and until the process has exited, main()
\* can take its next shutdown step whatever the calls in flight do, so no
\* call that never finishes keeps one server stopped and the other waiting.
C8_ShutdownCompletes ==
  main \in {"http_wait", "grpc_wait"} => ENABLED MainStep

\* The status the facade owes p's completed call, read off the engine's outcome.
OwedStatus(p) ==
  LET c == calls[p]
      e == c.resp.err
      http == c.transport = "http"
  IN CASE ~c.resp.engine -> IF http THEN "400" ELSE "InvalidArgument"
       [] c.resp.engine /\ e = NoErr ->
            IF ~http THEN "OK" ELSE IF c.op = "Register" THEN "201" ELSE "200"
       [] c.resp.engine /\ e = <<ErrDuplicateEmail>> -> "409"
       [] c.resp.engine /\ e = <<ErrInvalidCredentials>> -> "401"
       [] c.resp.engine /\ e = <<ErrUserNotFound>> -> IF http THEN "404" ELSE "NotFound"
       [] OTHER -> IF http THEN "500" ELSE "Internal"

\* The request of p's completed call was well-formed: a body that binds
\* (Register, Login), an identifier that is present (GetUser), a token that is
\* present (ValidateToken).
WellFormedRequest(p) ==
  LET c == calls[p]
  IN CASE c.op = "Register" -> BindRegister(c.email, c.name, c.pw)
       [] c.op = "Login" -> BindLogin(c.email, c.pw)
       [] c.op = "GetUser" -> c.id # 0
       [] OTHER -> c.token # NoToken

\* C9 as stated: every operation on both transports, the token check included,
\* answers with the status owed to the engine's outcome, and the engine is
\* called exactly for well-formed requests.
C9_EveryOperationMapped ==
  \A p \in Procs :
    Done(p) => /\ calls[p].resp.status = OwedStatus(p)
               /\ calls[p].resp.engine = WellFormedRequest(p)

\* C9: Register, Login and GetUser over HTTP and GetUser over gRPC answer with
\* the status owed to the engine's outcome (409, 401, 404 / NotFound, 201 / 200 /
\* OK, and 500 / Internal for every other error); a body that fails binding
\* is answered 400 and an empty user_id InvalidArgument, without calling the
\* engine; the ValidateToken RPC always answers OK and reports a missing or
\* rejected token in the reply's valid flag and message.
C9_FacadeMapping ==
  \A p \in Procs :
    Done(p) =>
      /\ calls[p].resp.engine = WellFormedRequest(p)
      /\ calls[p].op # "ValidateToken" => calls[p].resp.status = OwedStatus(p)
      /\ calls[p].op = "ValidateToken" =>
           /\ calls[p].resp.status = "OK"
           /\ calls[p].resp.valid = (calls[p].resp.engine /\ calls[p].resp.err = NoErr)
           /\ ~calls[p].resp.valid => calls[p].resp.message # "token is valid"

\* A duplicate registration was answered 409 while a lookup over gRPC was
\* answered NotFound.
C9_Witness ==
  \E p, q \in Procs :
    /\ DoneOp(p, "http", "Register") /\ calls[p].resp.status = "409"
    /\ DoneOp(q, "grpc", "GetUser") /\ calls[q].resp.status = "NotFound"

\* A step of p's call other than Register's create.
ReadStep(p) == calls'[p] # calls[p] /\ ~CreateStep(p)

C10_State ==
  \A p \in Procs :
    /\ (calls[p].pc = "reg_return" /\ calls[p].err = NoErr) => calls[p].user \in db
    /\ (Done(p) /\ calls[p].resp.engine /\ calls[p].resp.err = NoErr
        /\ calls[p].op \in {"Register", "Login", "GetUser"}) =>
         \E r \in db : /\ r.id = calls[p].resp.user.id
                       /\ r.email = calls[p].resp.user.email
                       /\ r.password # EmptyPassword
    /\ (Done(p) /\ calls[p].op = "GetUser" /\ Answered(p)
        /\ ~\E r \in db : r.id = calls[p].id) =>
         calls[p].resp.err = <<ErrUserNotFound>>

C10_Step ==
  /\ db \subseteq db'
  /\ db' # db =>
       \E p \in Procs :
         /\ CreateStep(p) /\ calls'[p].err = NoErr
         /\ ~HasAccount(calls[p].email)
         /\ calls'[p].user.email = calls[p].email
         /\ calls'[p].user.password = calls[p].user.password
         /\ \A r \in db : r.id # calls'[p].user.id
         /\ db' = db \cup {calls'[p].user}
  /\ \A p \in Procs : (CreateStep(p) /\ calls'[p].err # NoErr) => db' = db
  /\ \A p \in Procs : ReadStep(p) => db' = db

\* C10: no step ever removes or alters a stored account; the table changes
\* only in the create step of a Register that then succeeds, by gaining that
\* one account under a new email and a new identifier; every step of Login,
\* GetUserByID, ValidateToken and of a failing Register leaves it as it was,
\* the stored hash of a returned account stays in place, and GetUserByID for
\* an identifier no account has fails with ErrUserNotFound.
C10_ReadOnly == []C10_State /\ [][C10_Step]_vars

\* With an account stored, a login has returned it and a lookup of an
\* identifier no account has has failed.
C10_Witness ==
  \E p, q \in Procs :
    /\ DoneOp(p, "http", "Login") /\ calls[p].resp.status = "200"
    /\ Done(q) /\ calls[q].op = "GetUser" /\ calls[q].resp.err = <<ErrUserNotFound>>
    /\ \E r \in db : r.id = calls[p].resp.user.id /\ r.password.kind = "bcrypt"

\* C11: every stored account has a non-empty identifier that no other stored
\* account has; Register hands the account to create without an identifier,
\* and the hook gives it a fresh one there, while it keeps an identifier that
\* is already set; the account a successful Register returns and the subject
\* of a token a Login issues carry that non-empty identifier.
C11_FreshIdentifier ==
  /\ \A r \in db : r.id # 0
  /\ \A r1, r2 \in db : r1.id = r2.id => r1 = r2
  /\ \A i \in IdInputs \ {0}, f \in IdInputs \ {0} :
       BeforeCreate([NoUser EXCEPT !.id = i], f).id = i
  /\ \A p \in Procs :
       /\ calls[p].pc = "reg_create" => calls[p].user.id = 0
       /\ (calls[p].pc = "reg_return" /\ calls[p].err = NoErr) =>
            /\ calls[p].user.id # 0
            /\ \A r \in db : r.id = calls[p].user.id => r = calls[p].user
       /\ (DoneOp(p, "http", "Register") /\ calls[p].resp.status = "201") =>
            /\ calls[p].resp.user.id # 0
            /\ \E r \in db : r.id = calls[p].resp.user.id /\ r.email = calls[p].email
       /\ (DoneOp(p, "http", "Login") /\ calls[p].resp.status = "200") =>
            /\ calls[p].resp.token.sub # 0
            /\ calls[p].resp.token.sub = calls[p].resp.user.id

\* Two accounts are stored under different identifiers; a Register has
\* returned one of them and a Login has issued a token for the other.
C11_Witness ==
  \E p, q \in Procs :
    /\ Cardinality({r.id : r \in db}) = 2
    /\ DoneOp(p, "http", "Register") /\ calls[p].resp.status = "201"
    /\ DoneOp(q, "http", "Login") /\ calls[q].resp.status = "200"
    /\ calls[q].resp.token.sub # calls[p].resp.user.id
    /\ calls[q].resp.token.sub # 0 /\ calls[p].resp.user.id # 0

====
